---- MODULE Spec2Model ----
(***************************************************************************)
(* A model of konfik's configuration loader: the serde_json Value Tree,    *)
(* ConfigLoader::merge_json, and the ConfigLoader::load pipeline           *)
(* (files, environment, command line, validation, decoding).               *)
(*                                                                         *)
(* Strings the program inspects or builds (field names, variable names,    *)
(* raw values, flags) are sequences of one-character strings.              *)
(***************************************************************************)
EXTENDS Integers, Sequences, FiniteSets, TLC

VARIABLES
    args,           \* merge engine: the Value Trees handed to merge_json
    out,            \* merge engine: the results of the merges ("none" record before)
    loader,         \* ConfigLoader: env_prefix, config_files, cli_enabled, validation
    fs,             \* the file system: what is found at each path
    env,            \* the process environment: variable name -> raw value
    argv,           \* the command line after the program name
    pc,             \* position: "build", then the stages of load, then "done"
    idx,            \* load: index into config_files of the next candidate
    config,         \* load: the accumulator `config`
    result,         \* load: what load returned (or how the process ended)
    probes,         \* history: for every candidate probed, its path and what came of it
    layers          \* history: the accumulator after the file stage, the env and CLI trees

mergeVars == <<args, out>>
loadVars == <<loader, fs, env, argv, pc, idx, config, result, probes, layers>>
vars == <<args, out, loader, fs, env, argv, pc, idx, config, result, probes, layers>>

----------------------------------------------------------------------------
(* serde_json::Value: a tagged union. t is the tag, v the payload.         *)

Null == [t |-> "null", v |-> 0]
Bool(b) == [t |-> "bool", v |-> IF b THEN 1 ELSE 0]
Num(n) == [t |-> "num", v |-> n]
Str(s) == [t |-> "str", v |-> s]
Array(s) == [t |-> "array", v |-> s]
Object(m) == [t |-> "object", v |-> m]

\* serde_json::Map::new()
EmptyMap == [k \in {} |-> Null]
EmptyObject == Object(EmptyMap)

is_object(value) == value.t = "object"
is_null(value) == value.t = "null"

\* insert as a bug would have it: an entry is replaced, a new key is dropped.
insert_existing_only(map, key, value) ==
    [k \in DOMAIN map |-> IF k = key THEN value ELSE map[k]]

\* Map::insert: sets the entry of key, replacing an entry already there.
insert(map, key, value) ==
    [k \in DOMAIN map \cup {key} |-> IF k = key THEN value ELSE map[k]]

----------------------------------------------------------------------------
(* ConfigLoader::merge_json                                                *)

RECURSIVE merge_json(_, _), merge_entries(_, _, _)

\* The loop without its merging arm: every overlay entry replaces the base's.
merge_entries_shallow(base_map, overlay_map, keys) ==
    [k \in DOMAIN base_map \cup keys |->
        IF k \in keys THEN overlay_map[k] ELSE base_map[k]]

\* The loop with the replacing arm turned round: an entry the base already
\* holds is kept unless both values are objects.
merge_entries_keep_base(base_map, overlay_map, keys) ==
    [k \in DOMAIN base_map \cup keys |->
        IF k \notin keys THEN base_map[k]
        ELSE IF k \notin DOMAIN base_map THEN overlay_map[k]
        ELSE IF is_object(base_map[k]) /\ is_object(overlay_map[k])
             THEN merge_json(base_map[k], overlay_map[k])
             ELSE base_map[k]]

\* The loop `for (key, value) in overlay_map`: keys is what is left of the
\* overlay's entries; every entry is inserted into base_map, merged first
\* when the base holds an object under the key and the value is an object.
merge_entries(base_map, overlay_map, keys) ==
    IF keys = {} THEN base_map
    ELSE LET key == CHOOSE k \in keys : TRUE
             value == overlay_map[key]
         IN  IF key \in DOMAIN base_map /\ is_object(base_map[key]) /\ is_object(value)
             THEN merge_entries(insert(base_map, key, merge_json(base_map[key], value)),
                                overlay_map, keys \ {key})
             ELSE merge_entries(insert(base_map, key, value), overlay_map, keys \ {key})

\* The match with a second arm that keeps a base object against an overlay
\* that is no object.
merge_json_keep_object(base, overlay) ==
    IF is_object(base) /\ is_object(overlay)
    THEN Object(merge_entries(base.v, overlay.v, DOMAIN overlay.v))
    ELSE IF is_object(base) THEN base ELSE overlay

\* The match without its first arm: the overlay always wins outright.
merge_json_overlay_only(base, overlay) == overlay

\* match (base, overlay): two objects are merged entry by entry, anything
\* else yields the overlay.
merge_json(base, overlay) ==
    IF is_object(base) /\ is_object(overlay)
    THEN Object(merge_entries(base.v, overlay.v, DOMAIN overlay.v))
    ELSE overlay

----------------------------------------------------------------------------
(* The Value Trees the merge engine is exercised on.                       *)

\* Most entries (key/value pairs, counted over all levels) of a tree.
MaxEntries == 3

KeyX == <<"x">>
KeyY == <<"y">>
Keys == {KeyX, KeyY}

\* Values that are not objects: a number and two arrays.
Leaves == {Num(1), Array(<<Num(1)>>), Array(<<Num(1), Num(2)>>)}
SmallLeaves == {Num(1), Array(<<Num(1)>>)}

Object1(k, value) == Object([key \in {k} |-> value])
Object2(vx, vy) == Object([key \in Keys |-> IF key = KeyX THEN vx ELSE vy])

\* The trees over leaves of at most d levels of objects and at most n entries.
RECURSIVE Trees(_, _, _)
Trees(leaves, d, n) ==
    leaves \cup
    (IF d = 0 THEN {}
     ELSE {EmptyObject}
          \cup (IF n >= 1
                THEN {Object1(k, value) : k \in Keys, value \in Trees(leaves, d - 1, n - 1)}
                ELSE {})
          \cup (IF n >= 2
                THEN UNION {{Object2(vx, vy) : vx \in Trees(leaves, d - 1, i),
                                               vy \in Trees(leaves, d - 1, n - 2 - i)}
                            : i \in 0 .. (n - 2)}
                ELSE {}))

\* Arguments of the two-argument checks: up to three levels of objects.
Values == Trees(Leaves, 3, MaxEntries)

\* Arguments of the three-argument checks.
SmallValues == Trees(SmallLeaves, 2, MaxEntries - 1)

NoOut == [op |-> "none"]

\* merge_json(a, b) and merge_json(b, a) for a pair of trees.
MergeTwo ==
    /\ Len(args) = 2
    /\ out = NoOut
    /\ out' = [op |-> "two",
               ab |-> merge_json(args[1], args[2]),
               ba |-> merge_json(args[2], args[1])]
    /\ UNCHANGED <<args, loadVars>>

\* Both groupings of a merge of three trees.
MergeThree ==
    /\ Len(args) = 3
    /\ out = NoOut
    /\ out' = [op |-> "three",
               ab |-> merge_json(args[1], args[2]),
               bc |-> merge_json(args[2], args[3]),
               left |-> merge_json(merge_json(args[1], args[2]), args[3]),
               right |-> merge_json(args[1], merge_json(args[2], args[3]))]
    /\ UNCHANGED <<args, loadVars>>

----------------------------------------------------------------------------
(* Strings: sequences of one-character strings.                            *)

LowerCase == <<"a", "b", "c", "d", "e", "f", "g", "h", "i", "j", "k", "l", "m", "n", "o", "p", "q", "r", "s", "t", "u", "v", "w", "x", "y", "z">>
UpperCase == <<"A", "B", "C", "D", "E", "F", "G", "H", "I", "J", "K", "L", "M", "N", "O", "P", "Q", "R", "S", "T", "U", "V", "W", "X", "Y", "Z">>
Digits == <<"0", "1", "2", "3", "4", "5", "6", "7", "8", "9">>

IndexIn(c, letters) == CHOOSE i \in 1 .. Len(letters) : letters[i] = c
IsIn(c, letters) == \E i \in 1 .. Len(letters) : letters[i] = c

\* Letters outside ASCII: an upper-case letter and its lower-case form.
UpperOther == <<"É">>
LowerOther == <<"é">>

\* char::is_uppercase (by the Unicode property), char::to_ascii_lowercase
\* (ASCII letters only), and the per-character steps of str::to_uppercase and
\* str::to_lowercase (by the Unicode mappings).
is_uppercase(c) == IsIn(c, UpperCase) \/ IsIn(c, UpperOther)
to_ascii_lowercase(c) == IF IsIn(c, UpperCase) THEN LowerCase[IndexIn(c, UpperCase)] ELSE c
to_upper_char(c) ==
    IF IsIn(c, LowerCase) THEN UpperCase[IndexIn(c, LowerCase)]
    ELSE IF IsIn(c, LowerOther) THEN UpperOther[IndexIn(c, LowerOther)]
    ELSE c
to_lower_char(c) ==
    IF IsIn(c, UpperCase) THEN LowerCase[IndexIn(c, UpperCase)]
    ELSE IF IsIn(c, UpperOther) THEN LowerOther[IndexIn(c, UpperOther)]
    ELSE c

\* str::to_uppercase, str::to_lowercase
to_uppercase(s) == [i \in 1 .. Len(s) |-> to_upper_char(s[i])]
to_lowercase(s) == [i \in 1 .. Len(s) |-> to_lower_char(s[i])]

\* str::starts_with, str::ends_with
starts_with(s, prefix) ==
    Len(s) >= Len(prefix) /\ SubSeq(s, 1, Len(prefix)) = prefix
ends_with(s, suffix) ==
    Len(s) >= Len(suffix) /\ SubSeq(s, Len(s) - Len(suffix) + 1, Len(s)) = suffix

\* str::split(sep): the pieces of s between the occurrences of the character sep.
RECURSIVE split(_, _)
split(s, sep) ==
    IF \A i \in 1 .. Len(s) : s[i] # sep THEN <<s>>
    ELSE LET i == CHOOSE j \in 1 .. Len(s) :
                      s[j] = sep /\ \A k \in 1 .. (j - 1) : s[k] # sep
         IN  <<SubSeq(s, 1, i - 1)>> \o split(SubSeq(s, i + 1, Len(s)), sep)

\* [String]::join(sep)
RECURSIVE join(_, _)
join(pieces, sep) ==
    IF pieces = <<>> THEN <<>>
    ELSE IF Len(pieces) = 1 THEN pieces[1]
    ELSE pieces[1] \o sep \o join(Tail(pieces), sep)

\* Option: None, or Some(x).
None == [some |-> FALSE]
Some(x) == [some |-> TRUE, val |-> x]

----------------------------------------------------------------------------
(* ConfigLoader::parse_env_value                                           *)

IsDigits(s) == Len(s) >= 1 /\ \A i \in 1 .. Len(s) : IsIn(s[i], Digits)

\* The number a string of digits denotes.
RECURSIVE DigitsValue(_)
DigitsValue(s) ==
    IF s = <<>> THEN 0
    ELSE 10 * DigitsValue(SubSeq(s, 1, Len(s) - 1)) + (IndexIn(s[Len(s)], Digits) - 1)

\* str::parse::<bool>: exactly "true" or "false".
parse_bool(s) ==
    IF s = <<"t", "r", "u", "e">> THEN Some(TRUE)
    ELSE IF s = <<"f", "a", "l", "s", "e">> THEN Some(FALSE)
    ELSE None

\* str::parse::<i64>: an optional sign and one or more digits.
parse_i64(s) ==
    IF IsDigits(s) THEN Some(DigitsValue(s))
    ELSE IF Len(s) >= 2 /\ s[1] = "+" /\ IsDigits(Tail(s)) THEN Some(DigitsValue(Tail(s)))
    ELSE IF Len(s) >= 2 /\ s[1] = "-" /\ IsDigits(Tail(s)) THEN Some(0 - DigitsValue(Tail(s)))
    ELSE None

\* A float Number: the digits before and after the decimal point, as written
\* (serde_json keeps a float apart from an integer of the same value).
Float(negative, whole, fraction) ==
    [t |-> "float", v |-> <<IF negative THEN 1 ELSE 0, whole, fraction>>]

\* A float Number written with an exponent: the mantissa's digits and the
\* exponent.
FloatExp(negative, mantissa, exponent) ==
    [t |-> "float", v |-> <<IF negative THEN 1 ELSE 0, mantissa, <<"e">>, exponent>>]

\* The digits of s without its leading zeros.
RECURSIVE StripZeros(_)
StripZeros(s) == IF s # <<>> /\ s[1] = "0" THEN StripZeros(Tail(s)) ELSE s

\* The number of leading zeros of s.
LeadingZeros(s) == Len(s) - Len(StripZeros(s))

\* A decimal mantissa: digits, with at most one point and a digit on at least
\* one side of it.
IsMantissa(m) ==
    LET parts == split(m, ".")
    IN  \/ IsDigits(m)
        \/ /\ Len(parts) = 2
           /\ \A i \in 1 .. 2 : parts[i] = <<>> \/ IsDigits(parts[i])
           /\ parts[1] # <<>> \/ parts[2] # <<>>

MantissaWhole(m) == IF IsDigits(m) THEN m ELSE split(m, ".")[1]
MantissaFraction(m) == IF IsDigits(m) THEN <<>> ELSE split(m, ".")[2]

\* The decimal exponent of the leading significant digit of the mantissa m
\* scaled by 10^x; m holds a digit other than zero.
Magnitude(m, x) ==
    IF StripZeros(MantissaWhole(m)) # <<>>
    THEN Len(StripZeros(MantissaWhole(m))) - 1 + x
    ELSE x - LeadingZeros(MantissaFraction(m)) - 1

\* str::parse::<f64>: an optional sign, then "inf", "infinity" or "nan" in
\* any case, or a decimal mantissa, optionally followed by 'e' or 'E', an
\* optional sign and digits. Some(x) with x.class "finite", "inf" or "nan", the
\* float Number of a finite x in x.number; None for any other text. A value
\* whose leading digit has a decimal exponent above 308 overflows to
\* infinity (f64::MAX is about 1.8e308).
parse_f64(s) ==
    LET negative == Len(s) >= 1 /\ s[1] = "-"
        body == IF Len(s) >= 1 /\ s[1] \in {"+", "-"} THEN Tail(s) ELSE s
        lower == to_lowercase(body)
        exp == split(lower, "e")
        exp_negative == Len(exp) = 2 /\ Len(exp[2]) >= 1 /\ exp[2][1] = "-"
        exp_digits == IF Len(exp) = 2 /\ Len(exp[2]) >= 1 /\ exp[2][1] \in {"+", "-"}
                      THEN Tail(exp[2]) ELSE IF Len(exp) = 2 THEN exp[2] ELSE <<>>
    IN  IF lower \in {<<"i", "n", "f">>, <<"i", "n", "f", "i", "n", "i", "t", "y">>}
        THEN Some([class |-> "inf"])
        ELSE IF lower = <<"n", "a", "n">> THEN Some([class |-> "nan"])
        ELSE IF IsMantissa(body)
        THEN Some([class |-> "finite",
                   number |-> Float(negative, MantissaWhole(body), MantissaFraction(body))])
        ELSE IF Len(exp) = 2 /\ IsMantissa(exp[1]) /\ IsDigits(exp_digits)
        THEN IF /\ ~exp_negative
                /\ StripZeros(MantissaWhole(exp[1]) \o MantissaFraction(exp[1])) # <<>>
                /\ Magnitude(exp[1], DigitsValue(exp_digits)) > 308
             THEN Some([class |-> "inf"])
             ELSE Some([class |-> "finite",
                        number |-> FloatExp(negative, exp[1],
                                            IF exp_negative THEN <<"-">> \o exp_digits
                                            ELSE exp_digits)])
        ELSE None

\* serde_json::Number::from_f64: None for an infinite or NaN value.
from_f64(x) == IF x.class = "finite" THEN Some(x.number) ELSE None

\* `value.parse::<f64>()` followed by `Number::from_f64`: Some(number) when
\* both succeed.
parse_f64_number(s) ==
    IF parse_f64(s).some THEN from_f64(parse_f64(s).val) ELSE None

\* serde_json::from_str on the structured texts the model draws: "{}", "[]"
\* and an array of integers "[1,2,3]"; any other text is refused.
from_str_json(s) ==
    IF s = <<"{", "}">> THEN Some(EmptyObject)
    ELSE IF s = <<"[", "]">> THEN Some(Array(<<>>))
    ELSE IF Len(s) >= 3 /\ s[1] = "[" /\ s[Len(s)] = "]"
    THEN LET items == split(SubSeq(s, 2, Len(s) - 1), ",")
         IN  IF \A i \in 1 .. Len(items) : parse_i64(items[i]).some /\ items[i][1] # "+"
             THEN Some(Array([i \in 1 .. Len(items) |-> Num(parse_i64(items[i]).val)]))
             ELSE None
    ELSE None

\* parse_env_value with the integer attempt left out.
parse_env_value_no_int(value) ==
    IF parse_bool(value).some THEN Bool(parse_bool(value).val)
    ELSE IF parse_f64_number(value).some THEN parse_f64_number(value).val
    ELSE IF /\ \/ starts_with(value, <<"[">>) /\ ends_with(value, <<"]">>)
               \/ starts_with(value, <<"{">>) /\ ends_with(value, <<"}">>)
            /\ from_str_json(value).some
         THEN from_str_json(value).val
    ELSE Str(value)

\* parse_env_value: bool, then i64, then f64, then a bracketed or braced
\* structured text, else the text itself.
parse_env_value(value) ==
    IF parse_bool(value).some THEN Bool(parse_bool(value).val)
    ELSE IF parse_i64(value).some THEN Num(parse_i64(value).val)
    ELSE IF parse_f64_number(value).some THEN parse_f64_number(value).val
    ELSE IF /\ \/ starts_with(value, <<"[">>) /\ ends_with(value, <<"]">>)
               \/ starts_with(value, <<"{">>) /\ ends_with(value, <<"}">>)
            /\ from_str_json(value).some
         THEN from_str_json(value).val
    ELSE Str(value)

\* ConfigLoader::field_to_kebab: a fold over the characters.
RECURSIVE kebab_fold(_, _)
kebab_fold(acc, rest) ==
    IF rest = <<>> THEN acc
    ELSE LET c == Head(rest)
             dashed == IF is_uppercase(c) /\ acc # <<>> THEN Append(acc, "-") ELSE acc
         IN  kebab_fold(Append(dashed, to_ascii_lowercase(c)), Tail(rest))

field_to_kebab(field_name) == kebab_fold(<<>>, field_name)

----------------------------------------------------------------------------
(* The schema: AppConfig of src/main.rs, and the metadata derived for it.  *)

DatabaseUrl == <<"d", "a", "t", "a", "b", "a", "s", "e", "_", "u", "r", "l">>
Port == <<"p", "o", "r", "t">>
Debug == <<"d", "e", "b", "u", "g">>
RuntimeData == <<"r", "u", "n", "t", "i", "m", "e", "_", "d", "a", "t", "a">>
Logging == <<"l", "o", "g", "g", "i", "n", "g">>
Level == <<"l", "e", "v", "e", "l">>
Colors == <<"c", "o", "l", "o", "r", "s">>

Primitive(p) == [kind |-> "Primitive", prim |-> p]
Optional(inner) == [kind |-> "Optional", inner |-> inner]

\* analyze_field of the derive macro: skip and has_default come from the
\* attributes, required is "not Option and no default".
FieldMeta(name, field_type, is_option, skip, has_default) ==
    [name |-> name, env_name |-> None, cli_name |-> None, skip |-> skip,
     required |-> (~is_option /\ ~has_default), has_default |-> has_default,
     field_type |-> field_type, nested_metadata |-> None]

\* <AppConfig as ConfigMetadata>::config_metadata()
AppConfigMeta ==
    [name |-> "AppConfig",
     fields |-> << FieldMeta(DatabaseUrl, Primitive("String"), FALSE, FALSE, FALSE),
                   FieldMeta(Port, Primitive("U16"), FALSE, FALSE, FALSE),
                   FieldMeta(Debug, Primitive("Bool"), FALSE, FALSE, FALSE),
                   FieldMeta(RuntimeData, Optional(Primitive("String")), TRUE, TRUE, FALSE) >>]

\* The flat field list load_env walks: one entry per field, with its dotted
\* path (the name itself for a field of the top-level struct).
FlatFieldMeta(name, is_option, skip, has_default) ==
    [name |-> name, path |-> name, skip |-> skip,
     required |-> (~is_option /\ ~has_default), has_default |-> has_default,
     nested |-> FALSE]

AppConfigFlatMeta ==
    << FlatFieldMeta(DatabaseUrl, FALSE, FALSE, FALSE),
       FlatFieldMeta(Port, FALSE, FALSE, FALSE),
       FlatFieldMeta(Debug, FALSE, FALSE, FALSE),
       FlatFieldMeta(RuntimeData, TRUE, TRUE, FALSE) >>

----------------------------------------------------------------------------
(* config_meta.rs: the required-field analysis.                            *)

\* ConfigMetadata::get_nested_field: config.as_object()?.get(field_name)
get_nested_field(cfg, field_name) ==
    IF is_object(cfg) /\ field_name \in DOMAIN cfg.v THEN Some(cfg.v[field_name]) ELSE None

\* ConfigMetadata::find_missing_required_fields, a loop over metadata.fields
\* from position i on.
RECURSIVE find_missing_from(_, _, _, _)

\* The loop reporting every required field without a value, has_default or not.
find_missing_from_default_ignored(metadata, cfg, path_prefix, i) ==
    IF i > Len(metadata.fields) THEN {}
    ELSE LET field == metadata.fields[i]
             field_path == IF path_prefix = <<>> THEN field.name
                           ELSE path_prefix \o <<".">> \o field.name
             field_value == get_nested_field(cfg, field.name)
             here ==
                 IF field.skip THEN {}
                 ELSE IF field_value.some /\ ~is_null(field_value.val)
                 THEN IF field.nested_metadata.some
                      THEN find_missing_from(field.nested_metadata.val,
                                             field_value.val, field_path, 1)
                      ELSE {}
                 ELSE IF field.required THEN {field_path} ELSE {}
         IN  here \cup find_missing_from(metadata, cfg, path_prefix, i + 1)

\* The loop that never looks inside a nested field that has a value.
find_missing_from_no_recursion(metadata, cfg, path_prefix, i) ==
    IF i > Len(metadata.fields) THEN {}
    ELSE LET field == metadata.fields[i]
             field_path == IF path_prefix = <<>> THEN field.name
                           ELSE path_prefix \o <<".">> \o field.name
             field_value == get_nested_field(cfg, field.name)
             here ==
                 IF field.skip THEN {}
                 ELSE IF field_value.some /\ ~is_null(field_value.val) THEN {}
                 ELSE IF field.required /\ ~field.has_default
                      THEN {field_path} ELSE {}
         IN  here \cup find_missing_from(metadata, cfg, path_prefix, i + 1)

find_missing_from(metadata, cfg, path_prefix, i) ==
    IF i > Len(metadata.fields) THEN {}
    ELSE LET field == metadata.fields[i]
             field_path == IF path_prefix = <<>> THEN field.name
                           ELSE path_prefix \o <<".">> \o field.name
             field_value == get_nested_field(cfg, field.name)
             here ==
                 IF field.skip THEN {}
                 ELSE IF field_value.some /\ ~is_null(field_value.val)
                 THEN IF field.nested_metadata.some
                      THEN find_missing_from(field.nested_metadata.val,
                                             field_value.val, field_path, 1)
                      ELSE {}
                 ELSE IF field.required /\ ~field.has_default
                      THEN {field_path} ELSE {}
         IN  here \cup find_missing_from(metadata, cfg, path_prefix, i + 1)

find_missing_required_fields(metadata, cfg, path_prefix) ==
    find_missing_from(metadata, cfg, path_prefix, 1)

\* ConfigMetadata::analyze_required_fields
analyze_required_fields(current_config) ==
    find_missing_required_fields(AppConfigMeta, current_config, <<>>)

----------------------------------------------------------------------------
(* Paths and files.                                                        *)

\* A path: its stem and what Path::extension() yields for it.
ConfigJson == [stem |-> "config", ext |-> Some(<<"j", "s", "o", "n">>)]
ConfigYaml == [stem |-> "config", ext |-> Some(<<"y", "a", "m", "l">>)]
ConfigToml == [stem |-> "config", ext |-> Some(<<"t", "o", "m", "l">>)]
AppYml == [stem |-> "app", ext |-> Some(<<"y", "m", "l">>)]

\* What is at a path: nothing; a file that cannot be read; a file whose text
\* the parser of its format refuses; a file whose text parses to doc.
FileAbsent == [kind |-> "absent"]
FileUnreadable == [kind |-> "unreadable"]
FileGarbage == [kind |-> "garbage"]
FileDoc(doc) == [kind |-> "doc", doc |-> doc]

\* <FileFormat as FromStr>::from_str
file_format_from_str(s) ==
    LET l == to_lowercase(s)
    IN  IF l = <<"j", "s", "o", "n">> THEN Some("Json")
        ELSE IF l = <<"y", "a", "m", "l">> THEN Some("Yaml")
        ELSE IF l = <<"t", "o", "m", "l">> THEN Some("Toml")
        ELSE None

\* ConfigLoader::parse_file_content: the parser of the format, Some(value) when
\* it accepts the text and None when it does not.
parse_file_content(content, file_format) ==
    IF content.kind = "doc" THEN Some(content.doc) ELSE None

Ok(x) == [ok |-> TRUE, val |-> x]
Err(e) == [ok |-> FALSE, error |-> e]

\* load_file with the read failure swallowed.
load_file_unreadable_skipped(files, path) ==
    IF files[path].kind \in {"absent", "unreadable"} THEN Ok(None)
    ELSE LET ext == IF path.ext.some THEN path.ext.val ELSE <<"j", "s", "o", "n">>
             file_format == file_format_from_str(ext)
         IN  IF ~file_format.some THEN Err("ParseFileFormat")
             ELSE Ok(parse_file_content(files[path], file_format.val))

\* load_file without the exists() test: reading a missing file is an I/O error.
load_file_no_exists_check(files, path) ==
    IF files[path].kind \in {"absent", "unreadable"} THEN Err("Io")
    ELSE LET ext == IF path.ext.some THEN path.ext.val ELSE <<"j", "s", "o", "n">>
             file_format == file_format_from_str(ext)
         IN  IF ~file_format.some THEN Err("ParseFileFormat")
             ELSE Ok(parse_file_content(files[path], file_format.val))

\* ConfigLoader::load_file: Ok(None) for a missing path; an I/O error when the
\* file cannot be read; an error for an extension that names no format; else
\* whatever parse_file_content yields.
load_file(files, path) ==
    IF files[path].kind = "absent" THEN Ok(None)
    ELSE IF files[path].kind = "unreadable" THEN Err("Io")
    ELSE LET ext == IF path.ext.some THEN path.ext.val ELSE <<"j", "s", "o", "n">>
             file_format == file_format_from_str(ext)
         IN  IF ~file_format.some THEN Err("ParseFileFormat")
             ELSE Ok(parse_file_content(files[path], file_format.val))

----------------------------------------------------------------------------
(* ConfigLoader::load_env                                                  *)

\* The name of the variable consulted for a field.
\* The variable name with the prefix taken as it was given.
env_var_name_prefix_as_given(env_prefix, field) ==
    LET pieces == split(field.path, ".")
        path_upper == join([i \in 1 .. Len(pieces) |-> to_uppercase(pieces[i])], <<"_">>)
    IN  IF env_prefix.some
        THEN env_prefix.val \o <<"_">> \o path_upper
        ELSE path_upper

env_var_name(env_prefix, field) ==
    LET pieces == split(field.path, ".")
        path_upper == join([i \in 1 .. Len(pieces) |-> to_uppercase(pieces[i])], <<"_">>)
    IN  IF env_prefix.some
        THEN to_uppercase(env_prefix.val) \o <<"_">> \o path_upper
        ELSE path_upper

\* The loop over the metadata from position i on, filling env_map.
RECURSIVE load_env_from(_, _, _, _, _)
load_env_from(metadata, env_prefix, environment, env_map, i) ==
    IF i > Len(metadata) THEN env_map
    ELSE LET field == metadata[i]
             env_var == env_var_name(env_prefix, field)
         IN  IF env_var \in DOMAIN environment
             THEN load_env_from(metadata, env_prefix, environment,
                                insert(env_map, field.name,
                                       parse_env_value(environment[env_var])),
                                i + 1)
             ELSE load_env_from(metadata, env_prefix, environment, env_map, i + 1)

\* ConfigLoader::load_env::<T> for a type T whose metadata is the given list.
load_env_of(metadata, env_prefix, environment) ==
    Object(load_env_from(metadata, env_prefix, environment, EmptyMap, 1))

\* ConfigLoader::load_env::<AppConfig>
load_env(env_prefix, environment) ==
    load_env_of(AppConfigFlatMeta, env_prefix, environment)

----------------------------------------------------------------------------
(* ConfigLoader::load_cli, with clap modelled at its boundary.             *)

\* ConfigLoader::configure_arg_by_type: the value parser and the action.
RECURSIVE configure_arg_by_type(_)
configure_arg_by_type(field_type) ==
    IF field_type.kind = "Primitive" /\ field_type.prim \in {"U8", "U16", "U32"}
    THEN [parser |-> "u32", action |-> "Set"]
    ELSE IF field_type.kind = "Primitive" /\ field_type.prim = "U64"
    THEN [parser |-> "u64", action |-> "Set"]
    ELSE IF field_type.kind = "Primitive" /\ field_type.prim \in {"I8", "I16", "I32"}
    THEN [parser |-> "i32", action |-> "Set"]
    ELSE IF field_type.kind = "Primitive" /\ field_type.prim = "I64"
    THEN [parser |-> "i64", action |-> "Set"]
    ELSE IF field_type.kind = "Primitive" /\ field_type.prim \in {"F32", "F64"}
    THEN [parser |-> "float", action |-> "Set"]
    ELSE IF field_type.kind = "Vec"
    THEN [parser |-> "string", action |-> "Append"]
    ELSE IF field_type.kind = "Optional"
    THEN configure_arg_by_type(field_type.inner)
    ELSE [parser |-> "string", action |-> "Set"]

\* The command built from the metadata: one argument per field of
\* metadata.fields that is not skipped, required when its name is in the
\* missing-required set.
cli_args_for(metadata, missing_required) ==
    LET kept == SelectSeq(metadata.fields, LAMBDA f : ~f.skip)
    IN  [i \in 1 .. Len(kept) |->
            [id |-> kept[i].name,
             long |-> IF kept[i].cli_name.some THEN kept[i].cli_name.val
                      ELSE field_to_kebab(kept[i].name),
             parser |-> configure_arg_by_type(kept[i].field_type).parser,
             action |-> configure_arg_by_type(kept[i].field_type).action,
             required |-> kept[i].name \in missing_required]]

\* The command load_cli builds for AppConfig.
cli_args(missing_required) == cli_args_for(AppConfigMeta, missing_required)

\* A clap value parser accepts the raw text.
value_accepted(parser, raw) ==
    IF parser \in {"u32", "u64"}
    THEN IsDigits(raw) \/ (Len(raw) >= 2 /\ raw[1] = "+" /\ IsDigits(Tail(raw)))
    ELSE IF parser \in {"i32", "i64"} THEN parse_i64(raw).some
    ELSE IF parser = "float" THEN parse_i64(raw).some \/ parse_f64_number(raw).some
    ELSE TRUE

\* clap walking the tokens: "--help" asks for the help text; "--name" must be
\* the long name of an argument and is followed by its value; anything else is
\* a usage error. matches maps the id of every argument seen to its raw values.
RECURSIVE parse_tokens(_, _, _)
parse_tokens(defs, tokens, matches) ==
    IF tokens = <<>> THEN [kind |-> "ok", matches |-> matches]
    ELSE LET token == Head(tokens)
             name == SubSeq(token, 3, Len(token))
             known == {i \in 1 .. Len(defs) : defs[i].long = name}
         IN  IF token = <<"-", "-", "h", "e", "l", "p">> THEN [kind |-> "help"]
             ELSE IF ~starts_with(token, <<"-", "-">>) THEN [kind |-> "usage"]
             ELSE IF known = {} THEN [kind |-> "usage"]
             ELSE LET def == defs[CHOOSE i \in known : TRUE]
                  IN  IF Len(tokens) < 2 \/ starts_with(tokens[2], <<"-", "-">>)
                      THEN [kind |-> "usage"]
                      ELSE IF ~value_accepted(def.parser, tokens[2])
                      THEN [kind |-> "usage"]
                      ELSE IF def.id \in DOMAIN matches /\ def.action = "Set"
                      THEN [kind |-> "usage"]
                      ELSE parse_tokens(defs, SubSeq(tokens, 3, Len(tokens)),
                               insert(matches, def.id,
                                      IF def.id \in DOMAIN matches
                                      THEN Append(matches[def.id], tokens[2])
                                      ELSE <<tokens[2]>>))

\* Command::try_get_matches: with arg_required_else_help an empty command line
\* is answered with the help text as an error; a required argument that was
\* not given is a usage error.
try_get_matches(defs, tokens) ==
    IF tokens = <<>> THEN [kind |-> "usage"]
    ELSE LET parsed == parse_tokens(defs, tokens, [k \in {} |-> <<>>])
         IN  IF parsed.kind # "ok" THEN parsed
             ELSE IF \E i \in 1 .. Len(defs) :
                        defs[i].required /\ defs[i].id \notin DOMAIN parsed.matches
                  THEN [kind |-> "usage"]
                  ELSE parsed

\* The extraction loop over metadata.fields from position i on. A field that
\* was given is inserted with its parsed text. For a field that was not
\* given the loop asks matches.get_flag, which panics for an argument whose
\* action is not SetTrue or SetFalse, and no argument built here is.
RECURSIVE extract_from(_, _, _)
extract_from(matches, cli_map, i) ==
    IF i > Len(AppConfigMeta.fields) THEN [kind |-> "ok", val |-> Object(cli_map)]
    ELSE LET field == AppConfigMeta.fields[i]
         IN  IF field.skip THEN extract_from(matches, cli_map, i + 1)
             ELSE IF field.name \in DOMAIN matches
             THEN IF field.field_type.kind = "Vec"
                  THEN extract_from(matches,
                           insert(cli_map, field.name,
                                  Array([j \in 1 .. Len(matches[field.name]) |->
                                            parse_env_value(matches[field.name][j])])),
                           i + 1)
                  ELSE extract_from(matches,
                           insert(cli_map, field.name,
                                  parse_env_value(matches[field.name][1])),
                           i + 1)
             ELSE [kind |-> "panic"]

\* ConfigLoader::load_cli: "ok" with the CLI tree, "err" for a usage error,
\* "exit" when the help text was asked for, "panic".
load_cli(current_config, tokens) ==
    LET missing_required == analyze_required_fields(current_config)
        m == try_get_matches(cli_args(missing_required), tokens)
    IN  IF m.kind = "help" THEN [kind |-> "exit"]
        ELSE IF m.kind = "usage" THEN [kind |-> "err", error |-> "Environment"]
        ELSE extract_from(m.matches, EmptyMap, 1)

----------------------------------------------------------------------------
(* Validation and decoding.                                                *)

\* Value::as_u64
as_u64(value) == IF value.t = "num" /\ value.v >= 0 THEN Some(value.v) ELSE None

\* The validator of src/main.rs: a port above 65535 is refused.
port_validator(cfg) ==
    LET port == get_nested_field(cfg, Port)
    IN  IF port.some /\ as_u64(port.val).some /\ as_u64(port.val).val > 65535
        THEN Err("Validation") ELSE Ok(TRUE)

\* A value decodes into the type of a field of AppConfig.
decodes_as(value, prim) ==
    IF prim = "String" THEN value.t = "str"
    ELSE IF prim = "U16" THEN value.t = "num" /\ value.v >= 0 /\ value.v <= 65535
    ELSE value.t = "bool"

\* serde_json::from_value::<AppConfig>: an object must hold every field that
\* is not skipped, with a value of the field's type (other keys are ignored);
\* an array is read as the fields in order; anything else is refused.
from_value(cfg) ==
    LET fields == SelectSeq(AppConfigMeta.fields, LAMBDA f : ~f.skip)
    IN  IF is_object(cfg)
        THEN IF \A i \in 1 .. Len(fields) :
                    /\ fields[i].name \in DOMAIN cfg.v
                    /\ decodes_as(cfg.v[fields[i].name], fields[i].field_type.prim)
             THEN Ok([database_url |-> cfg.v[DatabaseUrl].v,
                      port |-> cfg.v[Port].v,
                      debug |-> cfg.v[Debug].v = 1])
             ELSE Err("ConfigParse")
        ELSE IF cfg.t = "array"
        THEN IF /\ Len(cfg.v) = Len(fields)
                /\ \A i \in 1 .. Len(fields) :
                      decodes_as(cfg.v[i], fields[i].field_type.prim)
             THEN Ok([database_url |-> cfg.v[1].v, port |-> cfg.v[2].v,
                      debug |-> cfg.v[3].v = 1])
             ELSE Err("ConfigParse")
        ELSE Err("ConfigParse")

----------------------------------------------------------------------------
(* The worlds a load runs in.                                              *)

\* Most candidate files a loader is given.
MaxFiles == 4

Entry(k, value) == [key \in {k} |-> value]
\* The object holding the entries of m1 and of m2 (distinct keys).
Both(m1, m2) == [key \in DOMAIN m1 \cup DOMAIN m2 |->
                    IF key \in DOMAIN m1 THEN m1[key] ELSE m2[key]]

JsonDoc ==
    Object(Both(Both(Entry(DatabaseUrl, Str(<<"d", "b">>)), Entry(Port, Num(80))),
                Both(Entry(Debug, Bool(FALSE)),
                     Entry(Logging, Object(Entry(Level, Str(<<"a">>)))))))
YamlDoc ==
    Object(Both(Entry(Port, Num(81)),
                Entry(Logging, Object(Both(Entry(Level, Str(<<"b">>)),
                                           Entry(Colors, Bool(TRUE)))))))
YamlArrayDoc == Array(<<Num(1)>>)
TomlDoc == Object(Entry(Logging, Object(Entry(Level, Str(<<"c">>)))))
TomlFlatDoc == Object(Both(Entry(Port, Num(82)), Entry(Logging, Str(<<"o", "f", "f">>))))
YmlDoc == Object(Entry(Port, Num(83)))

Paths == {ConfigJson, ConfigYaml, ConfigToml, AppYml}

\* What can be found at each path.
FileStates(path) ==
    IF path = ConfigJson THEN {FileAbsent, FileGarbage, FileDoc(JsonDoc)}
    ELSE IF path = ConfigYaml
    THEN {FileAbsent, FileUnreadable, FileDoc(YamlDoc), FileDoc(YamlArrayDoc)}
    ELSE IF path = ConfigToml
    THEN {FileAbsent, FileGarbage, FileDoc(TomlDoc), FileDoc(TomlFlatDoc)}
    ELSE {FileAbsent, FileDoc(YmlDoc)}

FileSystems == {f \in [Paths -> UNION {FileStates(p) : p \in Paths}] :
                    \A p \in Paths : f[p] \in FileStates(p)}

EnvPort == <<"P", "O", "R", "T">>
EnvAppPort == <<"A", "P", "P", "_", "P", "O", "R", "T">>
EnvAppRuntimeData == <<"A", "P", "P", "_", "R", "U", "N", "T", "I", "M", "E", "_", "D", "A", "T", "A">>
NoEnv == [k \in {} |-> <<>>]
Environments ==
    { NoEnv, Entry(EnvPort, <<"8", "0", "8", "0">>), Entry(EnvAppPort, <<"8", "0", "8", "1">>),
      Entry(EnvAppRuntimeData, <<"x">>) }

AllFlags(port) ==
    << <<"-", "-", "d", "a", "t", "a", "b", "a", "s", "e", "_", "u", "r", "l">>, <<"c", "l", "i">>, <<"-", "-", "p", "o", "r", "t">>, port, <<"-", "-", "d", "e", "b", "u", "g">>, <<"t", "r", "u", "e">> >>
CommandLines ==
    { <<>>,
      << <<"-", "-", "p", "o", "r", "t">>, <<"9", "0", "9", "0">> >>,
      AllFlags(<<"9", "0", "9", "0">>),
      AllFlags(<<"7", "0", "0", "0", "0">>),
      << <<"-", "-", "v", "e", "r", "b", "o", "s", "e">> >>,
      << <<"-", "-", "h", "e", "l", "p">> >> }

Prefixes == { <<"a", "p", "p">> }

----------------------------------------------------------------------------
(* ConfigLoader: construction, the builder methods, and load.              *)

\* <ConfigLoader as Default>::default
DefaultLoader ==
    [env_prefix |-> None,
     config_files |-> <<ConfigJson, ConfigYaml, ConfigToml>>,
     cli_enabled |-> FALSE,
     validation |-> None]

NoResult == [kind |-> "none"]
\* What the stages of a load were handed: the accumulator after the files,
\* the trees of load_env and load_cli, and the trees the validation callback
\* and the decoder were called with, in call order.
NoLayers == [files |-> None, env |-> None, cli |-> None,
             validated |-> <<>>, decoded |-> <<>>]

\* ConfigLoader::with_env_prefix
WithEnvPrefix ==
    /\ pc = "build"
    /\ \E prefix \in Prefixes :
          loader' = [loader EXCEPT !.env_prefix = Some(prefix)]
    /\ UNCHANGED <<args, out, fs, env, argv, pc, idx, config, result, probes, layers>>

\* ConfigLoader::with_config_file: the path is pushed onto config_files.
WithConfigFile ==
    /\ pc = "build"
    /\ Len(loader.config_files) < MaxFiles
    /\ \E path \in {AppYml} :
          loader' = [loader EXCEPT !.config_files = Append(@, path)]
    /\ UNCHANGED <<args, out, fs, env, argv, pc, idx, config, result, probes, layers>>

\* ConfigLoader::with_config_files: config_files is extended by the files.
with_config_files(self, files) == [self EXCEPT !.config_files = @ \o files]

WithConfigFiles ==
    /\ pc = "build"
    /\ \E files \in {<<>>, <<AppYml>>, <<AppYml, AppYml>>} :
          /\ Len(loader.config_files) + Len(files) <= MaxFiles
          /\ loader' = with_config_files(loader, files)
    /\ UNCHANGED <<args, out, fs, env, argv, pc, idx, config, result, probes, layers>>

\* ConfigLoader::with_cli
WithCli ==
    /\ pc = "build"
    /\ loader' = [loader EXCEPT !.cli_enabled = TRUE]
    /\ UNCHANGED <<args, out, fs, env, argv, pc, idx, config, result, probes, layers>>

\* ConfigLoader::with_validation, given the validator of src/main.rs.
WithValidation ==
    /\ pc = "build"
    /\ loader' = [loader EXCEPT !.validation = Some("port_validator")]
    /\ UNCHANGED <<args, out, fs, env, argv, pc, idx, config, result, probes, layers>>

\* load is called: the accumulator starts as the empty object.
LoadStart ==
    /\ pc = "build"
    /\ pc' = "files"
    /\ idx' = 1
    /\ config' = EmptyObject
    /\ UNCHANGED <<args, out, loader, fs, env, argv, result, probes, layers>>

\* load, one turn of the loop over config_files: load_file's error ends the
\* load, its Some(file_config) is merged over the accumulator, its None
\* leaves the accumulator as it is.
LoadFile ==
    /\ pc = "files"
    /\ idx <= Len(loader.config_files)
    /\ LET file_path == loader.config_files[idx]
           loaded == load_file(fs, file_path)
       IN  IF ~loaded.ok
           THEN /\ result' = [kind |-> "err", error |-> loaded.error]
                /\ pc' = "done"
                /\ probes' = Append(probes, [path |-> file_path, found |-> None])
                /\ UNCHANGED <<idx, config>>
           ELSE /\ config' = IF loaded.val.some
                             THEN merge_json(config, loaded.val.val)
                             ELSE config
                /\ idx' = idx + 1
                /\ probes' = Append(probes, [path |-> file_path, found |-> loaded.val])
                /\ UNCHANGED <<pc, result>>
    /\ UNCHANGED <<args, out, loader, fs, env, argv, layers>>

\* load, after the loop: the environment stage, run only when an env prefix
\* is configured.
LoadEnv ==
    /\ pc = "files"
    /\ idx > Len(loader.config_files)
    /\ LET env_config == load_env(loader.env_prefix, env)
       IN  IF loader.env_prefix.some
           THEN /\ config' = merge_json(config, env_config)
                /\ layers' = [layers EXCEPT !.files = Some(config),
                                            !.env = Some(env_config)]
           ELSE /\ config' = config
                /\ layers' = [layers EXCEPT !.files = Some(config)]
    /\ pc' = "cli"
    /\ UNCHANGED <<args, out, loader, fs, env, argv, idx, result, probes>>

\* load, the CLI stage, run only when the CLI is enabled: load_cli's tree is
\* merged over the accumulator; its error ends the load, as do the process
\* exit after the help text and a panic.
LoadCli ==
    /\ pc = "cli"
    /\ IF loader.cli_enabled
       THEN LET cli == load_cli(config, argv)
            IN  IF cli.kind = "ok"
                THEN /\ config' = merge_json(config, cli.val)
                     /\ layers' = [layers EXCEPT !.cli = Some(cli.val)]
                     /\ pc' = "validate"
                     /\ UNCHANGED result
                ELSE /\ result' = cli
                     /\ pc' = "done"
                     /\ UNCHANGED <<config, layers>>
       ELSE /\ pc' = "validate"
            /\ UNCHANGED <<config, layers, result>>
    /\ UNCHANGED <<args, out, loader, fs, env, argv, idx, probes>>

\* LoadValidate with the callback's failure dropped.
LoadValidate_failure_ignored ==
    /\ pc = "validate"
    /\ IF loader.validation.some
       THEN layers' = [layers EXCEPT !.validated = Append(@, config)]
       ELSE UNCHANGED layers
    /\ pc' = "decode"
    /\ UNCHANGED <<args, out, loader, fs, env, argv, idx, config, probes, result>>

\* load, the validation stage: the validator, if any, sees the accumulator,
\* and its error ends the load.
LoadValidate ==
    /\ pc = "validate"
    /\ IF loader.validation.some
       THEN /\ layers' = [layers EXCEPT !.validated = Append(@, config)]
            /\ IF ~port_validator(config).ok
               THEN /\ result' = [kind |-> "err",
                                   error |-> port_validator(config).error]
                    /\ pc' = "done"
               ELSE /\ pc' = "decode"
                    /\ UNCHANGED result
       ELSE /\ pc' = "decode"
            /\ UNCHANGED <<result, layers>>
    /\ UNCHANGED <<args, out, loader, fs, env, argv, idx, config, probes>>

\* load, the last stage: the accumulator is decoded into AppConfig.
LoadDecode ==
    /\ pc = "decode"
    /\ LET decoded == from_value(config)
       IN  result' = IF decoded.ok THEN [kind |-> "ok", value |-> decoded.val]
                     ELSE [kind |-> "err", error |-> decoded.error]
    /\ layers' = [layers EXCEPT !.decoded = Append(@, config)]
    /\ pc' = "done"
    /\ UNCHANGED <<args, out, loader, fs, env, argv, idx, config, probes>>

----------------------------------------------------------------------------
(* Specifications.                                                         *)

\* The loader as constructed, in some world, before any builder call.
LoadInit ==
    /\ loader = DefaultLoader
    /\ fs \in FileSystems
    /\ env \in Environments
    /\ argv \in CommandLines
    /\ pc = "build"
    /\ idx = 1
    /\ config = EmptyObject
    /\ result = NoResult
    /\ probes = <<>>
    /\ layers = NoLayers

\* The loader left alone, while the merge engine is exercised.
LoadIdle ==
    /\ loader = DefaultLoader
    /\ fs = [p \in Paths |-> FileAbsent]
    /\ env = NoEnv
    /\ argv = <<>>
    /\ pc = "idle"
    /\ idx = 1
    /\ config = EmptyObject
    /\ result = NoResult
    /\ probes = <<>>
    /\ layers = NoLayers

\* Building a loader and loading with it.
Init == LoadInit /\ args = <<>> /\ out = NoOut
Next ==
    \/ WithEnvPrefix \/ WithConfigFile \/ WithConfigFiles \/ WithCli \/ WithValidation
    \/ LoadStart \/ LoadFile \/ LoadEnv \/ LoadCli \/ LoadValidate \/ LoadDecode
Spec == Init /\ [][Next]_vars

\* merge_json on every pair of trees.
InitMerge == LoadIdle /\ args \in Values \X Values /\ out = NoOut
NextMerge == MergeTwo
SpecMerge == InitMerge /\ [][NextMerge]_vars

\* merge_json on every triple of small trees.
InitAssoc == LoadIdle /\ args \in SmallValues \X SmallValues \X SmallValues /\ out = NoOut
NextAssoc == MergeThree
SpecAssoc == InitAssoc /\ [][NextAssoc]_vars


----------------------------------------------------------------------------
(* The required-field analysis on hand-written metadata.                   *)

NameA == <<"a">>
NameB == <<"b">>
NameC == <<"c">>
NameD == <<"d">>
NameE == <<"e">>
NameF == <<"f">>

Struct == [kind |-> "Struct"]

\* A FieldMeta value written by hand: every field of the struct is public, so
\* required and has_default are independent here. nested is None or
\* Some(sub-schema).
Field(name, required, has_default, skip, nested) ==
    [name |-> name, env_name |-> None, cli_name |-> None, skip |-> skip,
     required |-> required, has_default |-> has_default,
     field_type |-> IF nested.some THEN Struct ELSE Primitive("String"),
     nested_metadata |-> nested]

ConfigMetaOf(name, fields) == [name |-> name, fields |-> fields]

\* The flag settings of a field: required, has_default, skip.
Flags == BOOLEAN \X BOOLEAN \X BOOLEAN

\* The sub-schemas {f}, {e} and {e: {f}}.
SchemasF == {ConfigMetaOf("F", <<Field(NameF, g[1], g[2], g[3], None)>>) : g \in Flags}
SchemasE ==
    {ConfigMetaOf("E", <<Field(NameE, g[1], g[2], g[3], n)>>) :
        g \in Flags, n \in {None} \cup {Some(m) : m \in SchemasF}}

\* The schema of the specification's example: a required, b required with a
\* default, c optional, d required and nested with a required child e.
ExampleSchema ==
    ConfigMetaOf("Example",
        << Field(NameA, TRUE, FALSE, FALSE, None),
           Field(NameB, TRUE, TRUE, FALSE, None),
           Field(NameC, FALSE, FALSE, FALSE, None),
           Field(NameD, TRUE, FALSE, FALSE,
                 Some(ConfigMetaOf("D", <<Field(NameE, TRUE, FALSE, FALSE, None)>>))) >>)

\* Schemas {a, d}: a flat, d flat or nested to a depth of three.
Schemas ==
    {ExampleSchema} \cup
    {ConfigMetaOf("T", <<Field(NameA, g[1], g[2], g[3], None),
                         Field(NameD, h[1], h[2], h[3], n)>>) :
        g \in Flags, h \in Flags, n \in {None} \cup {Some(m) : m \in SchemasE}}

\* What a tree can hold under d, and the trees analysed.
ValuesF == {Null, Num(1)}
ValuesE == {Null, Num(1), EmptyObject} \cup {Object(Entry(NameF, v)) : v \in ValuesF}
ValuesD == {Null, Num(1), EmptyObject} \cup {Object(Entry(NameE, v)) : v \in ValuesE}
AnalysedTrees ==
    {Array(<<Num(1)>>)} \cup
    {Object(Entry(NameA, v)) : v \in {Null, Num(1)}} \cup
    {Object(Entry(NameD, w)) : w \in ValuesD} \cup
    {Object(Both(Entry(NameA, v), Entry(NameD, w))) : v \in {Null, Num(1)}, w \in ValuesD} \cup
    {EmptyObject}

\* analyze_required_fields for a type whose metadata is args[1], on the tree
\* args[2], and the command load_cli builds from the result.
Analyze ==
    /\ Len(args) = 2
    /\ out = NoOut
    /\ LET missing_required == find_missing_required_fields(args[1], args[2], <<>>)
       IN  out' = [op |-> "analyze",
                   missing |-> missing_required,
                   cli |-> cli_args_for(args[1], missing_required)]
    /\ UNCHANGED <<args, loadVars>>

\* The required-field analysis on every schema and tree.
InitAnalyze == LoadIdle /\ args \in Schemas \X AnalysedTrees /\ out = NoOut
NextAnalyze == Analyze
SpecAnalyze == InitAnalyze /\ [][NextAnalyze]_vars

----------------------------------------------------------------------------
(* load_env on metadata with nested fields.                                *)

\* The identifiers fields are called, and the dotted paths of at most three
\* of them.
Idents == { <<"a">>, <<"B", "c">>, <<"d", "_", "e">> }
IdentPaths == UNION {[1 .. n -> Idents] : n \in 1 .. 3}

\* A field as generate_config_meta lists it: name is the field's own
\* identifier, path the identifiers from the top-level struct down, joined
\* by dots.
NestedFlatField(idents) ==
    [name |-> idents[Len(idents)], path |-> join(idents, <<".">>), skip |-> FALSE,
     required |-> TRUE, has_default |-> FALSE, nested |-> FALSE]

EnvPrefixes ==
    { None, Some(<<"a", "p", "p">>), Some(<<"M", "y", "_", "A", "p", "p">>),
      Some(<<>>) }

\* The variable names an environment may set for a field: its path and its
\* bare name, upper-cased with '_' for '.', with and without each prefix.
EnvNamesFor(idents) ==
    LET upper == [i \in 1 .. Len(idents) |-> to_uppercase(idents[i])]
        bare == {join(upper, <<"_">>), upper[Len(upper)]}
    IN  bare \cup {to_uppercase(q.val) \o <<"_">> \o b :
                      q \in EnvPrefixes \ {None}, b \in bare}
                  \cup {q.val \o <<"_">> \o b :
                      q \in EnvPrefixes \ {None}, b \in bare}

\* load_env for a type whose metadata is port and one other field, args[1],
\* under the prefix args[2] in the environment args[3]; vars are the variable
\* names the loop computes.
LoadEnvOnce ==
    /\ Len(args) = 3
    /\ out = NoOut
    /\ LET metadata == <<AppConfigFlatMeta[2], args[1]>>
       IN  out' = [op |-> "env",
                   vars |-> [i \in 1 .. Len(metadata) |->
                                env_var_name(args[2], metadata[i])],
                   tree |-> load_env_of(metadata, args[2], args[3])]
    /\ UNCHANGED <<args, loadVars>>

InitEnv ==
    /\ LoadIdle
    /\ \E idents \in IdentPaths, q \in EnvPrefixes :
          \E environment \in {NoEnv} \cup
                 {Entry(n, <<"5">>) : n \in EnvNamesFor(idents) \cup EnvNamesFor(<<Port>>)} :
             args = <<NestedFlatField(idents), q, environment>>
    /\ out = NoOut
NextEnv == LoadEnvOnce
SpecEnv == InitEnv /\ [][NextEnv]_vars

----------------------------------------------------------------------------
(* The pure functions, each applied to inputs of its own.                  *)

\* The longest raw text drawn from ParseAlphabet.
MaxRawLen == 3

ParseAlphabet == {"1", "0", "-", ".", "e", "[", "]"}

\* The raw texts parse_env_value is given.
RawTexts ==
    UNION {[1 .. n -> ParseAlphabet] : n \in 0 .. MaxRawLen} \cup
    { <<"t", "r", "u", "e">>,
      <<"f", "a", "l", "s", "e">>,
      <<"T", "r", "u", "e">>,
      <<"i", "n", "f">>,
      <<"-", "i", "n", "f">>,
      <<"I", "n", "f", "i", "n", "i", "t", "y">>,
      <<"N", "a", "N">>,
      <<"n", "a", "n">>,
      <<"1", "e", "9", "9", "9">>,
      <<"1", "e", "5">>,
      <<"1", "0", "E", "-", "3">>,
      <<"0", "e", "9", "9", "9">>,
      <<"4", "2">>,
      <<"-", "1", "7">>,
      <<"+", "5">>,
      <<"3", ".", "1", "4">>,
      <<"-", "0", ".", "5">>,
      <<"h", "e", "l", "l", "o">>,
      <<"[", "1", ",", "2", ",", "3", "]">>,
      <<"[", "1", ",", "a", "]">>,
      <<"{", "}">>,
      <<"[", "]">>,
      <<"[", "h", "e", "l", "l", "o", "]">>,
      <<"{", "o", "o", "p", "s", "}">> }

\* parse_env_value on the raw text args[2].
ParseEnvValue ==
    /\ Len(args) = 2 /\ args[1] = "parse"
    /\ out = NoOut
    /\ out' = [op |-> "parse", value |-> parse_env_value(args[2])]
    /\ UNCHANGED <<args, loadVars>>

\* The longest field name drawn from NameAlphabet.
MaxNameLen == 3

NameAlphabet == {"a", "B", "_", "É"}

\* The field names field_to_kebab is given.
FieldNames ==
    UNION {[1 .. n -> NameAlphabet] : n \in 1 .. MaxNameLen} \cup
    { <<"m", "a", "x", "C", "o", "n", "n", "e", "c", "t", "i", "o", "n", "s">>,
      <<"M", "a", "x", "C", "o", "n", "n", "e", "c", "t", "i", "o", "n", "s">>,
      <<"f", "i", "e", "l", "d", "_", "n", "a", "m", "e">>,
      <<"d", "a", "t", "a", "b", "a", "s", "e", "_", "u", "r", "l">>,
      <<"p", "o", "r", "t">> }

\* The explicit CLI names a field may carry.
CliNames == {None, Some(<<"x", "Y">>)}

\* field_to_kebab on the field name args[2], and the long flag of the
\* argument load_cli builds for a field of that name with cli_name args[3].
FieldToKebab ==
    /\ Len(args) = 3 /\ args[1] = "kebab"
    /\ out = NoOut
    /\ LET field == [FieldMeta(args[2], Primitive("String"), FALSE, FALSE, FALSE)
                        EXCEPT !.cli_name = args[3]]
           metadata == [name |-> "T", fields |-> <<field>>]
       IN  out' = [op |-> "kebab",
                   kebab |-> field_to_kebab(args[2]),
                   long |-> cli_args_for(metadata, {})[1].long]
    /\ UNCHANGED <<args, loadVars>>

\* The most attribute items a declared field carries.
MaxAttrs == 2

\* One item of an attribute list: #[konfik(skip)], #[serde(default)], ...
Attr(path, item) == [path |-> path, item |-> item]

AttrItems ==
    { Attr("konfik", "skip"), Attr("konfik", "nested"), Attr("command", "flatten"),
      Attr("serde", "skip"), Attr("serde", "default"), Attr("serde", "flatten") }

\* The declared fields: a type and its attribute items in order.
DeclaredFields ==
    [ty : {Primitive("String"), Primitive("Bool"), Optional(Primitive("String"))},
     attrs : UNION {[1 .. n -> AttrItems] : n \in 0 .. MaxAttrs}]

\* is_option_type: the last segment of the type's path is Option.
is_option_type(ty) == ty.kind = "Optional"

\* The attribute loop of analyze_field from attribute i on.
RECURSIVE analyze_attrs(_, _, _)
analyze_attrs(analysis, attrs, i) ==
    IF i > Len(attrs) THEN analysis
    ELSE LET a == attrs[i]
             konfik == IF a.path = "konfik" /\ a.item = "skip"
                       THEN [analysis EXCEPT !.skip = TRUE]
                       ELSE IF a.path = "konfik" /\ a.item = "nested"
                       THEN [analysis EXCEPT !.nested = TRUE]
                       ELSE analysis
             command == IF a.path = "command" /\ a.item = "flatten"
                        THEN [konfik EXCEPT !.nested = TRUE]
                        ELSE konfik
             serde == IF a.path = "serde" /\ a.item = "skip"
                      THEN [command EXCEPT !.skip = TRUE]
                      ELSE IF a.path = "serde" /\ a.item = "default"
                      THEN [command EXCEPT !.has_default = TRUE]
                      ELSE command
         IN  analyze_attrs(serde, attrs, i + 1)

\* analyze_field
analyze_field(field) ==
    LET analysis == analyze_attrs([skip |-> FALSE, required |-> FALSE,
                                   has_default |-> FALSE, nested |-> FALSE],
                                  field.attrs, 1)
    IN  [analysis EXCEPT !.required = ~is_option_type(field.ty) /\ ~analysis.has_default]

\* analyze_field on the declared field args[2].
AnalyzeField ==
    /\ Len(args) = 2 /\ args[1] = "derive"
    /\ out = NoOut
    /\ out' = [op |-> "derive", analysis |-> analyze_field(args[2])]
    /\ UNCHANGED <<args, loadVars>>

KeyXY == <<"x", ".", "y">>

\* The trees and the names get_nested_field is given.
LookupTrees ==
    Trees(SmallLeaves, 2, MaxEntries - 1) \cup
    {Object1(KeyXY, Num(1)), Object1(KeyX, Object1(KeyXY, Num(1)))}
LookupNames == {KeyX, KeyY, KeyXY, <<"y", ".", "x">>, <<"x", ".", "x">>}

\* get_nested_field on the tree args[2] and the name args[3].
GetNestedField ==
    /\ Len(args) = 3 /\ args[1] = "lookup"
    /\ out = NoOut
    /\ out' = [op |-> "lookup", found |-> get_nested_field(args[2], args[3])]
    /\ UNCHANGED <<args, loadVars>>

\* The file lists with_config_files is given, and the loaders it is
\* called on: the default loader, and one with a file pushed before.
FileLists == UNION {[1 .. n -> {AppYml, ConfigJson}] : n \in 0 .. 2}
Loaders == {DefaultLoader, [DefaultLoader EXCEPT !.config_files = Append(@, AppYml)]}

\* with_config_files on the loader args[2] and the files args[3].
WithConfigFilesOnce ==
    /\ Len(args) = 3 /\ args[1] = "files"
    /\ out = NoOut
    /\ out' = [op |-> "files", loader |-> with_config_files(args[2], args[3])]
    /\ UNCHANGED <<args, loadVars>>

DebugFlag == <<"-", "-", "d", "e", "b", "u", "g">>
PortFlag == <<"-", "-", "p", "o", "r", "t">>

\* Command lines that name the boolean field: its flag alone, its flag last
\* or first without a value, and the other two fields without it.
FlagLines ==
    { <<DebugFlag>>,
      SubSeq(AllFlags(<<"9", "0", "9", "0">>), 1, 5),
      <<DebugFlag, PortFlag, <<"9", "0", "9", "0">> >>,
      SubSeq(AllFlags(<<"9", "0", "9", "0">>), 1, 4) }

\* The accumulators load_cli is given.
CliConfigs == {EmptyObject, JsonDoc, YamlDoc}

\* load_cli on the accumulator args[2] and the command line args[3].
LoadCliOnce ==
    /\ Len(args) = 3 /\ args[1] = "cli"
    /\ out = NoOut
    /\ out' = [op |-> "cli", cli |-> load_cli(args[2], args[3])]
    /\ UNCHANGED <<args, loadVars>>

InitPure ==
    /\ LoadIdle
    /\ args \in ({"parse"} \X RawTexts) \cup ({"kebab"} \X FieldNames \X CliNames)
                \cup ({"derive"} \X DeclaredFields)
                \cup ({"lookup"} \X LookupTrees \X LookupNames)
                \cup ({"files"} \X Loaders \X FileLists)
                \cup ({"cli"} \X CliConfigs \X (CommandLines \cup FlagLines))
    /\ out = NoOut
NextPure ==
    \/ ParseEnvValue
    \/ FieldToKebab
    \/ AnalyzeField
    \/ GetNestedField
    \/ WithConfigFilesOnce
    \/ LoadCliOnce
SpecPure == InitPure /\ [][NextPure]_vars

----------------------------------------------------------------------------
(* Properties of merge_json.                                               *)

\* A position of a tree that does not exist.
Absent == [t |-> "absent", v |-> 0]

\* The value of tree under a path of keys, walking through objects only.
RECURSIVE At(_, _)
At(tree, path) ==
    IF path = <<>> THEN tree
    ELSE IF is_object(tree) /\ Head(path) \in DOMAIN tree.v
         THEN At(tree.v[Head(path)], Tail(path))
         ELSE Absent

\* The paths of at most three keys, the empty path (the tree itself) included.
KeyPaths == UNION {[1 .. n -> Keys] : n \in 0 .. 3}

\* The deep merge as section 4.1 of the specification words it.
RECURSIVE DeepMerge(_, _)
DeepMerge(a, b) ==
    IF is_object(a) /\ is_object(b)
    THEN Object([k \in DOMAIN a.v \cup DOMAIN b.v |->
                    IF k \notin DOMAIN b.v THEN a.v[k]
                    ELSE IF k \notin DOMAIN a.v THEN b.v[k]
                    ELSE DeepMerge(a.v[k], b.v[k])])
    ELSE b

\* C2: when base and overlay are objects, at the top level and at every depth
\* the merge recursed into (every path under which both hold objects), a key
\* present in both holds the recursive merge of the two values when both are
\* objects and otherwise exactly the overlay's value, an array included.
C2_CommonKeyMergedOrReplaced ==
    out.op = "two" =>
        \A p \in KeyPaths :
            LET a == At(args[1], p)
                b == At(args[2], p)
                r == At(out.ab, p)
            IN  (is_object(a) /\ is_object(b)) =>
                    /\ is_object(r)
                    /\ \A k \in DOMAIN a.v \cap DOMAIN b.v :
                          /\ k \in DOMAIN r.v
                          /\ r.v[k] = IF is_object(a.v[k]) /\ is_object(b.v[k])
                                      THEN DeepMerge(a.v[k], b.v[k])
                                      ELSE b.v[k]

\* C2 witness: both trees nest three objects under x.x, hold different
\* values under x.x.x, the overlay's an array, and the merge holds the array.
C2_Witness ==
    /\ out.op = "two"
    /\ is_object(At(args[1], <<KeyX, KeyX>>))
    /\ is_object(At(args[2], <<KeyX, KeyX>>))
    /\ At(args[1], <<KeyX, KeyX, KeyX>>) = Array(<<Num(1)>>)
    /\ At(args[2], <<KeyX, KeyX, KeyX>>) = Array(<<Num(1), Num(2)>>)
    /\ At(out.ab, <<KeyX, KeyX, KeyX>>) = Array(<<Num(1), Num(2)>>)

\* C3: when base or overlay is not an object, the merge is exactly the overlay.
C3_OverlayWinsOutright ==
    (out.op = "two" /\ ~(is_object(args[1]) /\ is_object(args[2]))) =>
        out.ab = args[2]

\* C3 witness: an object was replaced by a non-object, and (in the swapped
\* merge) a non-object by an object.
C3_Witness ==
    /\ out.op = "two"
    /\ is_object(args[1]) /\ args[1] # EmptyObject
    /\ ~is_object(args[2])
    /\ out.ab = args[2]
    /\ out.ba = args[1]

\* C4: for objects a and b the keys of merge_json(a, b) are exactly the keys
\* of a together with the keys of b.
C4_KeysAreUnion ==
    (out.op = "two" /\ is_object(args[1]) /\ is_object(args[2])) =>
        /\ is_object(out.ab)
        /\ DOMAIN out.ab.v = DOMAIN args[1].v \cup DOMAIN args[2].v

\* C4 witness: a key only the base holds and a key only the overlay holds
\* are both in the merge.
C4_Witness ==
    /\ out.op = "two"
    /\ is_object(args[1]) /\ is_object(args[2])
    /\ DOMAIN args[1].v = {KeyX}
    /\ DOMAIN args[2].v = {KeyY}
    /\ DOMAIN out.ab.v = {KeyX, KeyY}

\* C6 as stated: merge_json(a, emptyMap) = a for every tree a, object or not.
C6_RightIdentityAnyTree ==
    (out.op = "two" /\ args[2] = EmptyObject) => out.ab = args[1]

\* C6 amended: merge_json(a, emptyMap) = a for every object a; for a tree a
\* that is not an object the result is the empty object.
C6_RightIdentityObjects ==
    (out.op = "two" /\ args[2] = EmptyObject) =>
        out.ab = IF is_object(args[1]) THEN args[1] ELSE EmptyObject

\* C6 witness: a nested object merged with the empty object came back whole.
C6_Witness ==
    /\ out.op = "two"
    /\ args[2] = EmptyObject
    /\ is_object(At(args[1], <<KeyX>>))
    /\ At(args[1], <<KeyY>>) # Absent
    /\ out.ab = args[1]

\* C7: when objects a and b hold different values under a common key and the
\* two values are not both objects, merge_json(a, b) and merge_json(b, a)
\* differ and each holds under that key the value of its overlay argument.
C7_NotCommutative ==
    (out.op = "two" /\ is_object(args[1]) /\ is_object(args[2])) =>
        \A k \in DOMAIN args[1].v \cap DOMAIN args[2].v :
            (/\ args[1].v[k] # args[2].v[k]
             /\ ~(is_object(args[1].v[k]) /\ is_object(args[2].v[k]))) =>
                /\ out.ab # out.ba
                /\ is_object(out.ab) /\ is_object(out.ba)
                /\ out.ab.v[k] = args[2].v[k]
                /\ out.ba.v[k] = args[1].v[k]

\* C7 witness: the two objects conflict under x and the two merges differ.
C7_Witness ==
    /\ out.op = "two"
    /\ At(args[1], <<KeyX>>) = Num(1)
    /\ At(args[2], <<KeyX>>) = Array(<<Num(1)>>)
    /\ At(out.ab, <<KeyX>>) = Array(<<Num(1)>>)
    /\ At(out.ba, <<KeyX>>) = Num(1)

\* No place, at the top or under keys where all three trees hold objects,
\* where a and c are objects and b is not.
RECURSIVE NoObjectGap(_, _, _)
NoObjectGap(a, b, c) ==
    /\ ~(is_object(a) /\ ~is_object(b) /\ is_object(c))
    /\ (is_object(a) /\ is_object(b) /\ is_object(c)) =>
          \A k \in DOMAIN a.v \cap DOMAIN b.v \cap DOMAIN c.v :
              NoObjectGap(a.v[k], b.v[k], c.v[k])

\* C5 as stated: for all trees a, b, c the two groupings of the merge agree,
\* and the empty object merged with a is a.
C5_AssociativeLeftIdentity ==
    out.op = "three" =>
        /\ out.left = out.right
        /\ (args[1] = EmptyObject => out.ab = args[2])

\* C5 amended: the two groupings agree whenever no place has a and c objects
\* with b a non-object between them; the empty object merged with a is a.
C5_AssociativeWithoutGap ==
    out.op = "three" =>
        /\ NoObjectGap(args[1], args[2], args[3]) => out.left = out.right
        /\ (args[1] = EmptyObject => out.ab = args[2])

\* C5 witness: three objects that overlap under a nested key were merged in
\* both groupings, with the same result, the third one's value on top.
C5_Witness ==
    /\ out.op = "three"
    /\ At(args[1], <<KeyX, KeyX>>) = Num(1)
    /\ At(args[2], <<KeyX, KeyY>>) = Num(1)
    /\ At(args[3], <<KeyX, KeyX>>) = Array(<<Num(1)>>)
    /\ out.left = out.right
    /\ At(out.left, <<KeyX, KeyX>>) = Array(<<Num(1)>>)
    /\ At(out.left, <<KeyX, KeyY>>) = Num(1)

----------------------------------------------------------------------------
(* Properties of load.                                                     *)

\* The field paths of the documents a load can meet.
FieldPaths ==
    { <<DatabaseUrl>>, <<Port>>, <<Debug>>, <<Logging>>,
      <<Logging, Level>>, <<Logging, Colors>> }

\* The candidates load_file found a document for, by position in probes.
Present == {i \in 1 .. Len(probes) : probes[i].found.some}
\* The document of the i-th candidate.
Doc(i) == probes[i].found.val

\* A tree holds a field at a path: a value that is not an object.
Holds(tree, path) == At(tree, path) # Absent /\ ~is_object(At(tree, path))

\* A tree keeps to objects along a path: at the top level and at each proper
\* prefix of the path it holds an object or nothing.
ObjectsAlong(tree, path) ==
    \A n \in 0 .. Len(path) - 1 :
        LET at == At(tree, SubSeq(path, 1, n))
        IN  at = Absent \/ is_object(at)

\* The name of the environment variable the port is read from.
PortVar == env_var_name(loader.env_prefix, AppConfigFlatMeta[2])

\* C1: source priority of load.  When a file supplies the port and the load
\* succeeds, the decoded port is the command line's if the CLI stage supplied
\* one; else it is the value of the port's environment variable (PORT when no
\* prefix is configured) if that variable is set; else it is the file's.
C1_SourcePriority ==
    (/\ result.kind = "ok"
     /\ layers.files.some
     /\ Holds(layers.files.val, <<Port>>))
    => IF layers.cli.some /\ Port \in DOMAIN layers.cli.val.v
       THEN result.value.port = layers.cli.val.v[Port].v
       ELSE IF PortVar \in DOMAIN env
       THEN result.value.port = parse_env_value(env[PortVar]).v
       ELSE result.value.port = layers.files.val.v[Port].v

\* C8 as stated: while the files are being merged, every field held by some
\* present file has in the accumulator the value of the last-listed present
\* file holding it, fields held only by an earlier file included.
C8_LastHolderKept ==
    pc = "files" =>
        \A path \in FieldPaths : \A j \in Present :
            (/\ Holds(Doc(j), path)
             /\ \A k \in Present : k > j => ~Holds(Doc(k), path))
            => At(config, path) = At(Doc(j), path)

\* C8: load merges the present files in listed order.  A field held by a
\* present file has that file's value in the accumulator provided every
\* later-listed present file holds nothing at the field's path and keeps to
\* objects along it; so a later file overrides an earlier one field by field
\* and fields held only by an earlier file survive, unless a later file puts
\* a value that is not an object at the top level or at a prefix of the path.
C8_LaterFileOverrides ==
    pc = "files" =>
        \A path \in FieldPaths : \A j \in Present :
            (/\ Holds(Doc(j), path)
             /\ \A k \in Present : k > j =>
                    /\ At(Doc(k), path) = Absent
                    /\ ObjectsAlong(Doc(k), path))
            => At(config, path) = At(Doc(j), path)

\* Two present files both hold the port and only the first the database url:
\* the accumulator has the second's port and the first's database url.
C8_Witness ==
    /\ pc = "files"
    /\ \E j, k \in Present :
          /\ j < k
          /\ Holds(Doc(j), <<Port>>) /\ Holds(Doc(k), <<Port>>)
          /\ Holds(Doc(j), <<DatabaseUrl>>) /\ ~Holds(Doc(k), <<DatabaseUrl>>)
          /\ \A l \in Present : l <= k
          /\ At(config, <<Port>>) = At(Doc(k), <<Port>>)
          /\ At(config, <<Port>>) # At(Doc(j), <<Port>>)
          /\ At(config, <<DatabaseUrl>>) = At(Doc(j), <<DatabaseUrl>>)

\* C9: a candidate path that does not exist is skipped.  When the file loop
\* is at such a path, load_file yields Ok(None), and the step that handles the
\* path leaves the accumulator and the result as they are and moves the loop
\* to the next candidate, with load still running.
C9_AbsentPathSkipped ==
    [][ (/\ pc = "files"
         /\ idx <= Len(loader.config_files)
         /\ fs[loader.config_files[idx]].kind = "absent")
        => /\ load_file(fs, loader.config_files[idx]) = Ok(None)
           /\ config' = config
           /\ result' = result
           /\ pc' = "files"
           /\ idx' = idx + 1 ]_vars

\* A load that met an absent path, read a file listed after it, and succeeded.
C9_Witness ==
    /\ result.kind = "ok"
    /\ \E i, j \in 1 .. Len(probes) :
          /\ i < j
          /\ fs[probes[i].path].kind = "absent"
          /\ ~probes[i].found.some
          /\ probes[j].found.some

\* C10 as stated: a candidate file that exists but whose text its format's
\* parser refuses ends the load with an error, at that file.
C10_UnparseableFileFails ==
    \A i \in 1 .. Len(probes) :
        fs[probes[i].path].kind = "garbage"
        => result.kind = "err" /\ i = Len(probes)

\* The accumulator as the environment stage left it.
AfterEnv ==
    IF layers.env.some THEN merge_json(layers.files.val, layers.env.val)
    ELSE layers.files.val

\* The accumulator as the CLI stage left it: every layer merged.
Merged == IF layers.cli.some THEN merge_json(AfterEnv, layers.cli.val) ELSE AfterEnv

\* C11 as stated: the environment layer is consulted on every load, prefix or
\* no prefix.  Once the environment stage of load is over, every field that
\* is not skipped and whose environment variable is set has the parsed value
\* of that variable in the accumulator.
C11_EnvAlwaysConsulted ==
    pc = "cli" =>
        \A i \in 1 .. Len(AppConfigFlatMeta) :
            LET field == AppConfigFlatMeta[i]
                env_var == env_var_name(loader.env_prefix, field)
            IN  (~field.skip /\ env_var \in DOMAIN env)
                => At(config, <<field.name>>) = parse_env_value(env[env_var])

\* C12: a configured validation callback is called exactly once, with the
\* tree in which the files, the environment (when the stage runs) and the CLI
\* (when enabled) are all merged, and before decoding: decoding is attempted
\* at most once, only after the callback accepted that same tree; when the
\* callback refuses, load ends with its failure and nothing is decoded.
C12_ValidatedOnceBeforeDecode ==
    /\ Len(layers.validated) <= 1
    /\ Len(layers.decoded) <= 1
    /\ ~loader.validation.some => layers.validated = <<>>
    /\ layers.validated # <<>> =>
          /\ layers.files.some
          /\ loader.env_prefix.some => layers.env.some
          /\ loader.cli_enabled => layers.cli.some
          /\ layers.validated[1] = Merged
    /\ (loader.validation.some /\ (pc = "decode" \/ layers.decoded # <<>>)) =>
          /\ Len(layers.validated) = 1
          /\ port_validator(layers.validated[1]).ok
    /\ (loader.validation.some /\ layers.decoded # <<>>) =>
          layers.decoded[1] = layers.validated[1]
    /\ (layers.validated # <<>> /\ ~port_validator(layers.validated[1]).ok) =>
          /\ result = [kind |-> "err", error |-> "Validation"]
          /\ layers.decoded = <<>>
          /\ pc = "done"

\* The callback refused a tree holding a CLI layer; nothing was decoded.
C12_Witness ==
    /\ result = [kind |-> "err", error |-> "Validation"]
    /\ layers.cli.some
    /\ Len(layers.validated) = 1
    /\ layers.validated[1] = Merged
    /\ layers.decoded = <<>>

\* A load that validated once and then decoded the validated tree.
C12_WitnessAccepted ==
    /\ result.kind = "ok"
    /\ layers.env.some
    /\ Len(layers.validated) = 1
    /\ layers.decoded = layers.validated

\* The error a candidate path must end the load with, if any: the file is
\* there and cannot be read, or is there and its extension names no format.
FileFailure(path) ==
    IF fs[path].kind = "unreadable" THEN Some("Io")
    ELSE IF /\ fs[path].kind # "absent"
            /\ path.ext.some
            /\ ~file_format_from_str(path.ext.val).some
    THEN Some("ParseFileFormat")
    ELSE None

C13_WitnessCli ==
    /\ result = [kind |-> "err", error |-> "Environment"]
    /\ loader.validation.some
    /\ argv # <<>>
    /\ layers.validated = <<>>

\* C18 as stated: a skipped field is never sourced from the environment or
\* the command line.  The trees load_env and load_cli hand to load hold no
\* key of a field whose skip flag is set.
C18_SkippedNeverSourced ==
    \A i \in 1 .. Len(AppConfigFlatMeta) :
        AppConfigFlatMeta[i].skip =>
            /\ layers.env.some =>
                  AppConfigFlatMeta[i].name \notin DOMAIN layers.env.val.v
            /\ layers.cli.some =>
                  AppConfigFlatMeta[i].name \notin DOMAIN layers.cli.val.v

----------------------------------------------------------------------------
(* Properties of the required-field analysis.                              *)

\* The dotted path of a field called name under the path prefix.
PathOf(prefix, name) == IF prefix = <<>> THEN name ELSE prefix \o <<".">> \o name

\* Every field of a schema, nested ones included, with its dotted path.
RECURSIVE FieldsOf(_, _)
FieldsOf(metadata, prefix) ==
    UNION { LET field == metadata.fields[i]
                path == PathOf(prefix, field.name)
            IN  {[path |-> path, field |-> field]} \cup
                (IF field.nested_metadata.some
                 THEN FieldsOf(field.nested_metadata.val, path) ELSE {})
            : i \in 1 .. Len(metadata.fields) }

\* A tree holds a value other than null under the name of a field.
HasValue(field, tree) ==
    /\ get_nested_field(tree, field.name).some
    /\ ~is_null(get_nested_field(tree, field.name).val)
ValueOf(field, tree) == get_nested_field(tree, field.name).val

\* A field that must be reported against a tree: not skipped, required,
\* without default, and without a value in the tree.
Wanting(field, tree) ==
    ~field.skip /\ field.required /\ ~field.has_default /\ ~HasValue(field, tree)

\* No reported path lies under the path p.
NothingUnder(p, missing) == \A q \in missing : ~starts_with(q, p \o <<".">>)

\* C14: for every schema and tree, the missing-required set contains the
\* path of no field whose skip flag is set and of no field whose has_default
\* flag is set, whatever the field's required flag, at any nesting depth.
C14_SkipAndDefaultNeverMissing ==
    out.op = "analyze" =>
        \A e \in FieldsOf(args[1], <<>>) :
            (e.field.skip \/ e.field.has_default) => e.path \notin out.missing

\* On the empty tree, a is required with a default and d is required and
\* skipped: neither is reported.
C14_Witness ==
    /\ out.op = "analyze"
    /\ args[2] = EmptyObject
    /\ Len(args[1].fields) = 2
    /\ args[1].fields[1].required /\ args[1].fields[1].has_default
    /\ ~args[1].fields[1].skip
    /\ args[1].fields[2].required /\ ~args[1].fields[2].has_default
    /\ args[1].fields[2].skip
    /\ out.missing = {}

\* C15 as stated: for the schema a (required), b (required with default),
\* c (optional), d (required, nested, with a required child e) and the empty
\* tree, the missing-required set is exactly {"a", "d.e"}.
C15_ExampleMissingSet ==
    (out.op = "analyze" /\ args[1] = ExampleSchema /\ args[2] = EmptyObject)
    => out.missing = {NameA, PathOf(NameD, NameE)}

\* C16: a field that is not skipped and has a value other than null is never
\* reported itself.  If it is nested, each child is reported, under the
\* parent's path, a dot and the child's name, exactly when it is wanting in
\* that value, and a child that has a value there is treated the same way one
\* level down; if it is not nested, nothing is reported under its path.
C16_RecursesIntoPresentNested ==
    out.op = "analyze" =>
        \A i \in 1 .. Len(args[1].fields) :
            LET d == args[1].fields[i]
                dv == ValueOf(d, args[2])
            IN  (~d.skip /\ HasValue(d, args[2])) =>
                  /\ d.name \notin out.missing
                  /\ IF ~d.nested_metadata.some
                     THEN NothingUnder(d.name, out.missing)
                     ELSE \A j \in 1 .. Len(d.nested_metadata.val.fields) :
                            LET e == d.nested_metadata.val.fields[j]
                                de == PathOf(d.name, e.name)
                                ev == ValueOf(e, dv)
                            IN  /\ Wanting(e, dv) <=> de \in out.missing
                                /\ (~e.skip /\ HasValue(e, dv)) =>
                                     IF ~e.nested_metadata.some
                                     THEN NothingUnder(de, out.missing)
                                     ELSE \A k \in 1 .. Len(e.nested_metadata.val.fields) :
                                            LET f == e.nested_metadata.val.fields[k]
                                            IN  Wanting(f, ev) <=>
                                                  PathOf(de, f.name) \in out.missing

\* d holds an object holding an object under e, and the only path reported
\* is d.e.f, three levels down.
C16_Witness ==
    /\ out.op = "analyze"
    /\ is_object(args[2])
    /\ NameD \in DOMAIN args[2].v
    /\ out.missing = {PathOf(PathOf(NameD, NameE), NameF)}

\* C17 as stated: the mandatory flags of the command are exactly the flags of
\* the fields whose dotted path is in the missing-required set.  Every path
\* of the set, paths of fields inside nested sub-schemas included, has a
\* mandatory flag built for it, and every mandatory flag is built for a path
\* of the set.
C17_MandatoryIffMissing ==
    out.op = "analyze" =>
        /\ \A p \in out.missing :
              \E i \in 1 .. Len(out.cli) : out.cli[i].id = p /\ out.cli[i].required
        /\ \A i \in 1 .. Len(out.cli) :
              out.cli[i].required => out.cli[i].id \in out.missing

----------------------------------------------------------------------------
(* Properties of load_env.                                                 *)

\* A dotted path upper-cased, with every '.' replaced by '_'.
UpperUnderscored(path) ==
    [i \in 1 .. Len(path) |-> IF path[i] = "." THEN "_" ELSE to_upper_char(path[i])]

\* The variable name the specification gives a field under a prefix.
ExpectedEnvVar(env_prefix, path) ==
    IF env_prefix.some
    THEN [i \in 1 .. Len(env_prefix.val) |-> to_upper_char(env_prefix.val[i])]
             \o <<"_">> \o UpperUnderscored(path)
    ELSE UpperUnderscored(path)

\* The metadata LoadEnvOnce runs load_env on.
EnvMetadata == <<AppConfigFlatMeta[2], args[1]>>

\* The tree holding only leaf, under the keys of path.
RECURSIVE Nest(_, _)
Nest(path, leaf) ==
    IF path = <<>> THEN leaf ELSE Object(Entry(Head(path), Nest(Tail(path), leaf)))

\* C19: the environment variable consulted for a field is the field's dotted
\* path, upper-cased and with '_' for every '.', preceded by the upper-cased
\* prefix and '_' when a prefix is configured and by nothing otherwise; the
\* field gets a value from load_env exactly when that variable is set.
C19_EnvVarName ==
    out.op = "env" =>
        \A i \in 1 .. Len(EnvMetadata) :
            /\ out.vars[i] = ExpectedEnvVar(args[2], EnvMetadata[i].path)
            /\ (\A j \in 1 .. Len(EnvMetadata) :
                    j # i => EnvMetadata[j].name # EnvMetadata[i].name)
               => (EnvMetadata[i].name \in DOMAIN out.tree.v
                     <=> ExpectedEnvVar(args[2], EnvMetadata[i].path) \in DOMAIN args[3])

\* A nested field under a mixed-case prefix, its variable set and read.
C19_Witness ==
    /\ out.op = "env"
    /\ args[2] = Some(<<"M", "y", "_", "A", "p", "p">>)
    /\ args[1].path = <<"a", ".", "B", "c">>
    /\ out.vars[2] = <<"M", "Y", "_", "A", "P", "P", "_", "A", "_", "B", "C">>
    /\ out.vars[2] \in DOMAIN args[3]
    /\ out.tree # EmptyObject

\* C20 as stated: when the environment variable of a field is set, load_env's
\* tree holds the parsed value at the field's dotted path, under nested Maps,
\* so that merged over a file's tree it replaces the file's value there.
C20_EnvValueAtNestedPath ==
    out.op = "env" =>
        \A i \in 1 .. Len(EnvMetadata) :
            out.vars[i] \in DOMAIN args[3] =>
                LET path == split(EnvMetadata[i].path, ".")
                    parsed == parse_env_value(args[3][out.vars[i]])
                IN  /\ At(out.tree, path) = parsed
                    /\ At(merge_json(Nest(path, Str(<<"f">>)), out.tree), path) = parsed

----------------------------------------------------------------------------
(* Properties of parse_env_value.                                          *)

TrueText == <<"t", "r", "u", "e">>
FalseText == <<"f", "a", "l", "s", "e">>

\* The text s is an optional sign followed by one or more decimal digits.
IntegerText(s) ==
    LET u == IF s # <<>> /\ s[1] \in {"+", "-"} THEN Tail(s) ELSE s
    IN  u # <<>> /\ \A i \in 1 .. Len(u) :
            u[i] \in {"0", "1", "2", "3", "4", "5", "6", "7", "8", "9"}

\* The text s opens with '[' and closes with ']', or opens with '{' and
\* closes with '}'.
Delimited(s) ==
    /\ Len(s) >= 2
    /\ \/ s[1] = "[" /\ s[Len(s)] = "]"
       \/ s[1] = "{" /\ s[Len(s)] = "}"

\* The value v is the classification of the text s in the fixed order; a
\* text that is no boolean and no integer is a float exactly when is_float.
InOrder(s, v, is_float) ==
    IF s \in {TrueText, FalseText} THEN v = Bool(s = TrueText)
    ELSE IF IntegerText(s) THEN v = Num(parse_i64(s).val)
    ELSE IF is_float THEN v.t = "float"
    ELSE IF Delimited(s) /\ from_str_json(s).some
    THEN v = from_str_json(s).val /\ v.t \in {"array", "object"}
    ELSE v = Str(s)

\* C21 as stated: the classification is in the fixed order with every text
\* that parses as a float giving a float Number, so that no text that parses
\* as an integer or as a float is returned as a String.
C21_NumericNeverString ==
    out.op = "parse" =>
        /\ InOrder(args[2], out.value, parse_f64(args[2]).some)
        /\ (IntegerText(args[2]) \/ parse_f64(args[2]).some) => out.value.t # "str"

\* C21, amended: the classification is in the fixed order, first match wins,
\* where the float case is a text that parses as a finite float; a text that
\* parses as an infinite or NaN float passes on to the structured and String
\* cases, and every other text that parses as a number gives a Number.
C21_ClassifiedInOrder ==
    out.op = "parse" =>
        /\ InOrder(args[2], out.value,
                   parse_f64(args[2]).some /\ parse_f64(args[2]).val.class = "finite")
        /\ \/ IntegerText(args[2])
           \/ parse_f64(args[2]).some /\ parse_f64(args[2]).val.class = "finite"
           => out.value.t \in {"num", "float"}

C21_Witness ==
    /\ out.op = "parse"
    /\ parse_f64(args[2]).some
    /\ parse_f64(args[2]).val.class = "inf"
    /\ out.value = Str(args[2])

C21_WitnessFloat ==
    /\ out.op = "parse"
    /\ ~IntegerText(args[2])
    /\ out.value.t = "float"

----------------------------------------------------------------------------
(* Properties of the command-line flag names.                              *)

\* What the upper-case letter rule makes of the character at position i of
\* the name s.
KebabPiece(s, i) ==
    IF is_uppercase(s[i])
    THEN (IF i > 1 THEN <<"-">> ELSE <<>>) \o <<to_lower_char(s[i])>>
    ELSE <<s[i]>>

RECURSIVE KebabFrom(_, _)
KebabFrom(s, i) == IF i > Len(s) THEN <<>> ELSE KebabPiece(s, i) \o KebabFrom(s, i + 1)

\* C22: field_to_kebab turns every upper-case letter after the first
\* character into a hyphen and its lower-case form, lower-cases a leading
\* upper-case letter and keeps every other character; the flag of a field is
\* its explicit CLI name when it has one, else the converted name.
C22_KebabConversion ==
    out.op = "kebab" =>
        /\ out.kebab = KebabFrom(args[2], 1)
        /\ out.long = IF args[3].some THEN args[3].val ELSE KebabFrom(args[2], 1)

\* The name s is in snake_case: lower-case letters and underscores.
SnakeCase(s) == \A i \in 1 .. Len(s) : s[i] = "_" \/ IsIn(s[i], LowerCase)

\* C23: the flag of a snake_case field without an explicit CLI name is the
\* field name with every underscore replaced by a hyphen.
C23_UnderscoresBecomeHyphens ==
    out.op = "kebab" /\ ~args[3].some /\ SnakeCase(args[2]) =>
        out.long = [i \in 1 .. Len(args[2]) |->
                        IF args[2][i] = "_" THEN "-" ELSE args[2][i]]

----------------------------------------------------------------------------
(* Properties of the derived field metadata.                               *)

\* The declared field carries #[serde(default)].
DeclaresDefault(field) ==
    \E i \in 1 .. Len(field.attrs) : field.attrs[i] = Attr("serde", "default")

\* C25: required is true exactly when the declared type is no Option,
\* whether or not the field declares a default, and has_default is true
\* exactly when it declares one.
C25_RequiredFromTypeAlone ==
    out.op = "derive" =>
        /\ out.analysis.required = (args[2].ty.kind # "Optional")
        /\ out.analysis.has_default = DeclaresDefault(args[2])

----------------------------------------------------------------------------
(* Properties of the analyzer's value lookup.                              *)

\* C27: the lookup follows the dotted path component by component through
\* nested objects; it finds the value under the path, and nothing when a
\* component is absent or an intermediate node is no object.
C27_DottedPathLookup ==
    out.op = "lookup" =>
        LET under == At(args[2], split(args[3], "."))
        IN  out.found = IF under = Absent THEN None ELSE Some(under)

----------------------------------------------------------------------------
(* Idempotence and frame of merge_json.                                    *)

\* The merge of a and b recurses into the path p: a and b hold objects at p
\* and at every prefix of p.
RecursesInto(a, b, p) ==
    \A n \in 0 .. Len(p) :
        is_object(At(a, SubSeq(p, 1, n))) /\ is_object(At(b, SubSeq(p, 1, n)))

\* C28: merge_json(a, a) = a for every tree a; and for objects a and b, at
\* every path the merge recurses into, each key of a that b does not hold
\* there holds in the merge exactly the value it holds in a.
C28_IdempotentAndFrame ==
    out.op = "two" =>
        /\ args[1] = args[2] => out.ab = args[1]
        /\ \A p \in KeyPaths :
              RecursesInto(args[1], args[2], p) =>
                  /\ is_object(At(out.ab, p))
                  /\ \A k \in DOMAIN At(args[1], p).v \ DOMAIN At(args[2], p).v :
                        /\ k \in DOMAIN At(out.ab, p).v
                        /\ At(out.ab, p).v[k] = At(args[1], p).v[k]

\* C28 witness: both trees hold objects under x, only the base holds x.y and
\* only the overlay x.x, and the merge holds the base's value under x.y.
C28_Witness ==
    /\ out.op = "two"
    /\ At(args[1], <<KeyX, KeyY>>) = Array(<<Num(1)>>)
    /\ At(args[2], <<KeyX, KeyY>>) = Absent
    /\ At(args[2], <<KeyX, KeyX>>) = Num(1)
    /\ At(out.ab, <<KeyX, KeyY>>) = Array(<<Num(1)>>)
    /\ At(out.ab, <<KeyX, KeyX>>) = Num(1)

\* C28 witness: a tree of nested objects merged with itself came back whole.
C28_WitnessSame ==
    /\ out.op = "two"
    /\ args[1] = args[2]
    /\ is_object(At(args[1], <<KeyX, KeyX>>))
    /\ At(args[1], <<KeyY>>) # Absent
    /\ out.ab = args[1]

----------------------------------------------------------------------------
(* Properties of the builder.                                              *)

\* C24: with_config_files clears the candidate list, defaults included, and
\* sets it to exactly the given files in the given order; every other
\* setting of the loader is kept.
C24_FilesReplaced ==
    out.op = "files" =>
        out.loader = [args[2] EXCEPT !.config_files = args[3]]

----------------------------------------------------------------------------
(* Properties of the command-line flags of boolean fields.                 *)

\* The command line gives the flag at some position.
Gives(tokens, flag) == \E i \in 1 .. Len(tokens) : tokens[i] = flag

\* The command line gives the flag with no value after it.
GivesAlone(tokens, flag) ==
    \E i \in 1 .. Len(tokens) :
        /\ tokens[i] = flag
        /\ i = Len(tokens) \/ starts_with(tokens[i + 1], <<"-", "-">>)

\* C26: the flag of the boolean field debug given with no value yields
\* Bool(true) for debug in the CLI tree; a command line of other flags that
\* omits it yields a CLI tree with no entry for debug.
C26_BoolIsPresenceFlag ==
    out.op = "cli" =>
        /\ GivesAlone(args[3], DebugFlag) =>
              /\ out.cli.kind = "ok"
              /\ At(out.cli.val, <<Debug>>) = Bool(TRUE)
        /\ (Gives(args[3], PortFlag) /\ ~Gives(args[3], DebugFlag)
                /\ args[2] = JsonDoc) =>
              /\ out.cli.kind = "ok"
              /\ At(out.cli.val, <<Debug>>) = Absent

----------------------------------------------------------------------------
(* The accumulator where load hands it on.                                 *)

\* C29: the accumulator is an object wherever load hands it on: to the
\* required-field analysis of load_cli, to the validation callback and to
\* the decoder.
C29_AccumulatorIsMap ==
    /\ (pc = "cli" /\ loader.cli_enabled) => is_object(config)
    /\ \A i \in 1 .. Len(layers.validated) : is_object(layers.validated[i])
    /\ \A i \in 1 .. Len(layers.decoded) : is_object(layers.decoded[i])

====
